---- MODULE Spec2Model ----
(***************************************************************************)
(* The circuit breaker of src/app.ts (class CircuitBreaker<T>): its four   *)
(* mutable fields, its three configuration fields, the clock Date.now(),   *)
(* and the fire calls of its callers.  fire is an async method: the code   *)
(* up to `await this.action(...args)` runs in the caller's step, the rest  *)
(* of the try block runs when the action's promise fulfils, the catch      *)
(* block when it rejects.  An action that throws before returning a        *)
(* promise reaches the same catch block with nothing in between; that is   *)
(* the behaviour in which fireRejected directly follows fire.              *)
(*                                                                         *)
(* Further specifications over the same module: SpecCtor (the constructor  *)
(* applied to options that may be omitted), SpecDraft (the draft breaker   *)
(* CircuitBreakerPattern.act of src/circuit-breaker.ts, on the same        *)
(* fields) and SpecChain / SpecChainFair (the ordering chain Auth,         *)
(* Validate, Order over BaseChain).                                        *)
(***************************************************************************)
EXTENDS Integers, FiniteSets, Sequences, TLC

\* ---- bounds of the model ----
MaxFailureThreshold == 2
MaxSuccessThreshold == 2
MaxTimeout == 2
MaxTime == 3
MaxCalls == 4
NumCallers == 2

MaxOption == 2
MaxSetNext == 2
MaxTrace == 4
MaxFail == 2
MaxSuccessCount == 3

\* line 22-24: the defaults of the three options
DefaultFailureThreshold == 3
DefaultSuccessThreshold == 2
DefaultTimeout == 5000

Callers == 1..NumCallers
\* values an action can fulfil with, and errors it can reject with
Results == {"Success!", "other"}
Errors == {"Service failed!", "other failure"}
\* the message of the Error fire throws itself (app.ts line 35)
CircuitOpenMessage == "Circuit is OPEN. Request blocked!"

VARIABLES
    state,              \* "CLOSED" | "OPEN" | "HALF_OPEN"
    failureCount,
    successCount,
    nextAttempt,
    failureThreshold,
    successThreshold,
    timeout,
    now,                \* Date.now()
    pc,                 \* per caller: "idle", or "await" (at line 40)
    calls,              \* history: number of fire calls started
    invocations,        \* history: number of times action was invoked
    rejections,         \* history: number of fire calls the gate rejected
    nFail,              \* history: number of action calls that failed
    nSucc,              \* history: number of action calls that succeeded
    winSucc,            \* history: successes since the last OPEN -> HALF_OPEN step
    overlap,            \* history: two fire calls were ever pending together
    admitted,           \* history, per caller: the state its pending call was
                        \* admitted in (after the gate), or "none"
    lastInvoke,         \* history: the time of the last action invocation
    fSinceClose,        \* history: failed action calls since the last step
                        \* into CLOSED
    sSinceReset,        \* history: successful action calls since the last step
                        \* into CLOSED or failure that left the state OPEN
    trips,              \* history: steps that entered OPEN
    halfOpens,          \* history: executions of line 33 (state = "HALF_OPEN")
    closes,             \* history: executions of lines 48-50 (state = "CLOSED")
    last,               \* history: the last step: its operation, its caller, the
                        \* state it started in, what it delivered to the caller
                        \* (ret) and what the action had produced (act)
    window,             \* history: per caller, the HALF_OPEN window (its number,
                        \* counted by halfOpens) in which its pending call was
                        \* admitted; 0 for none or for a call admitted otherwise
    probeSucc,          \* history: successes, in the current HALF_OPEN window,
                        \* of calls admitted in that window
    options,            \* the options object given to the constructor
    nexthandler,        \* ordering chain: BaseChain.nexthandler of each handler
    setNextRet,         \* ordering chain: what the last setNext call returned
    built,              \* history: the setNext statements executed so far
    request,            \* ordering chain: the request being handled
    cur,                \* ordering chain: the handler whose handle is running
    trace,              \* history: the handlers whose handle has run, in order
    result              \* ordering chain: what the outermost handle returned

config == <<failureThreshold, successThreshold, timeout>>
fields == <<state, failureCount, successCount, nextAttempt>>
vars == <<state, failureCount, successCount, nextAttempt, failureThreshold,
          successThreshold, timeout, now, pc, calls, invocations, rejections,
          nFail,
          nSucc, winSucc, overlap, admitted, lastInvoke, fSinceClose,
          sSinceReset, trips, halfOpens, closes, last, window, probeSucc>>
probes == <<window, probeSucc>>

chainVars == <<nexthandler, setNextRet, built, request, cur, trace, result>>
others == <<options, chainVars>>

\* ---- what a call delivers to its caller ----
Nothing == [kind |-> "none", val |-> "none"]
Return(v) == [kind |-> "return", val |-> v]
Throw(e) == [kind |-> "throw", val |-> e]

\* the breaker's mutable fields as one record
This ==
    [state |-> state, failureCount |-> failureCount,
     successCount |-> successCount, nextAttempt |-> nextAttempt]

\* ---- the conditions of fire ----
\* mutants of CooldownElapsed
CooldownElapsedInverted(t, na) == t < na
CooldownElapsedNever(t, na) == FALSE
\* line 32: Date.now() > this.nextAttempt
CooldownElapsed(t, na) == t > na

\* mutant of ShouldTrip: trips one failure late
ShouldTripLate(fc) == fc > failureThreshold
\* line 58: this.failureCount >= this.failureThreshold
ShouldTrip(fc) == fc >= failureThreshold

\* mutant of ShouldClose: the state is not tested
ShouldCloseAnyState(st, sc) == sc > successThreshold
\* mutant of ShouldClose: closes one success early
ShouldCloseEarly(st, sc) == st = "HALF_OPEN" /\ sc >= successThreshold
\* lines 44-47: state === "HALF_OPEN" && successCount > successThreshold
ShouldClose(st, sc) == st = "HALF_OPEN" /\ sc > successThreshold

\* ---- the three segments of fire, as functions of the fields ----
\* mutant of Gate: the rejection is thrown inside the try block, so the catch
\* block counts it as a failure
GateInsideTry(b, t) ==
    IF b.state = "OPEN" /\ ~CooldownElapsed(t, b.nextAttempt)
    THEN [b |-> [b EXCEPT !.failureCount = @ + 1,
                          !.nextAttempt = t + timeout],
          admit |-> FALSE, probe |-> FALSE]
    ELSE [b |-> [b EXCEPT !.state = IF @ = "OPEN" THEN "HALF_OPEN" ELSE @],
          admit |-> TRUE, probe |-> b.state = "OPEN"]
\* mutant of Gate: the throw of line 35 is missing
GateNoThrow(b, t) ==
    IF b.state = "OPEN" /\ CooldownElapsed(t, b.nextAttempt)
    THEN [b |-> [b EXCEPT !.state = "HALF_OPEN"], admit |-> TRUE,
          probe |-> TRUE]
    ELSE [b |-> b, admit |-> TRUE, probe |-> FALSE]
\* mutant of Gate: only a CLOSED breaker lets calls through
GateClosedOnly(b, t) ==
    IF b.state = "OPEN" /\ CooldownElapsed(t, b.nextAttempt)
    THEN [b |-> [b EXCEPT !.state = "HALF_OPEN"], admit |-> TRUE,
          probe |-> TRUE]
    ELSE [b |-> b, admit |-> b.state = "CLOSED", probe |-> FALSE]
\* mutant of Gate: while HALF_OPEN only one probe call may be pending
GateSingleProbe(b, t) ==
    IF b.state = "OPEN"
    THEN IF CooldownElapsed(t, b.nextAttempt)
         THEN [b |-> [b EXCEPT !.state = "HALF_OPEN"], admit |-> TRUE,
               probe |-> TRUE]
         ELSE [b |-> b, admit |-> FALSE, probe |-> FALSE]
    ELSE [b |-> b, probe |-> FALSE,
          admit |-> ~(b.state = "HALF_OPEN"
                        /\ \E d \in Callers : pc[d] = "await")]
\* mutant of Gate: the step to HALF_OPEN also resets successCount
GateResetsOnProbe(b, t) ==
    IF b.state = "OPEN"
    THEN IF CooldownElapsed(t, b.nextAttempt)
         THEN [b |-> [b EXCEPT !.state = "HALF_OPEN", !.successCount = 0],
               admit |-> TRUE, probe |-> TRUE]
         ELSE [b |-> b, admit |-> FALSE, probe |-> FALSE]
    ELSE [b |-> b, admit |-> TRUE, probe |-> FALSE]
\* mutant of Gate: line 31 tests state !== "CLOSED", so a call arriving in
\* HALF_OPEN after the cooldown runs line 33 again
GateReprobes(b, t) ==
    IF b.state # "CLOSED"
    THEN IF CooldownElapsed(t, b.nextAttempt)
         THEN [b |-> [b EXCEPT !.state = "HALF_OPEN"], admit |-> TRUE,
               probe |-> TRUE]
         ELSE [b |-> b, admit |-> FALSE, probe |-> FALSE]
    ELSE [b |-> b, admit |-> TRUE, probe |-> FALSE]
\* lines 31-37: the OPEN gate: the fields after it, whether the call goes on
\* to the action (admit), and whether line 33 ran (probe)
Gate(b, t) ==
    IF b.state = "OPEN"
    THEN IF CooldownElapsed(t, b.nextAttempt)
         THEN [b |-> [b EXCEPT !.state = "HALF_OPEN"], admit |-> TRUE,
               probe |-> TRUE]
         ELSE [b |-> b, admit |-> FALSE, probe |-> FALSE]
    ELSE [b |-> b, admit |-> TRUE, probe |-> FALSE]

\* mutant of OnSuccess: closing resets every field, nextAttempt included
OnSuccessResetsNextAttempt(b) ==
    LET b1 == [b EXCEPT !.successCount = @ + 1]
    IN  IF ShouldClose(b1.state, b1.successCount)
        THEN [b1 EXCEPT !.state = "CLOSED", !.failureCount = 0,
                        !.successCount = 0, !.nextAttempt = 0]
        ELSE b1
\* mutant of OnSuccess: successes are counted only while HALF_OPEN
OnSuccessCountsOnlyProbes(b) ==
    LET b1 == IF b.state = "HALF_OPEN"
              THEN [b EXCEPT !.successCount = @ + 1] ELSE b
    IN  IF ShouldClose(b1.state, b1.successCount)
        THEN [b1 EXCEPT !.state = "CLOSED", !.failureCount = 0,
                        !.successCount = 0]
        ELSE b1
\* mutant of OnSuccess: closing does not reset failureCount
OnSuccessKeepsFailureCount(b) ==
    LET b1 == [b EXCEPT !.successCount = @ + 1]
    IN  IF ShouldClose(b1.state, b1.successCount)
        THEN [b1 EXCEPT !.state = "CLOSED", !.successCount = 0]
        ELSE b1
\* lines 41-51: the fields after the action fulfilled
OnSuccess(b) ==
    LET b1 == [b EXCEPT !.successCount = @ + 1]
    IN  IF ShouldClose(b1.state, b1.successCount)
        THEN [b1 EXCEPT !.state = "CLOSED", !.failureCount = 0,
                        !.successCount = 0]
        ELSE b1

\* mutant of OnFailure: nextAttempt is set without the timeout
OnFailureNoTimeout(b, t) ==
    LET b1 == [b EXCEPT !.failureCount = @ + 1]
    IN  IF ShouldTrip(b1.failureCount)
        THEN [b1 EXCEPT !.state = "OPEN", !.nextAttempt = t,
                        !.successCount = 0]
        ELSE b1
\* mutant of OnFailure: the trip does not reset successCount
OnFailureKeepsSuccessCount(b, t) ==
    LET b1 == [b EXCEPT !.failureCount = @ + 1]
    IN  IF ShouldTrip(b1.failureCount)
        THEN [b1 EXCEPT !.state = "OPEN", !.nextAttempt = t + timeout]
        ELSE b1
\* mutant of OnFailure: the trip also resets failureCount
OnFailureResetsFailureCount(b, t) ==
    LET b1 == [b EXCEPT !.failureCount = @ + 1]
    IN  IF ShouldTrip(b1.failureCount)
        THEN [b1 EXCEPT !.state = "OPEN", !.nextAttempt = t + timeout,
                        !.successCount = 0, !.failureCount = 0]
        ELSE b1
\* lines 56-62: the fields after the action rejected
OnFailure(b, t) ==
    LET b1 == [b EXCEPT !.failureCount = @ + 1]
    IN  IF ShouldTrip(b1.failureCount)
        THEN [b1 EXCEPT !.state = "OPEN", !.nextAttempt = t + timeout,
                        !.successCount = 0]
        ELSE b1

\* mutant of Rethrow: the catch block swallows the error (the call fulfils
\* with undefined)
RethrowSwallowed(e) == Return("undefined")
\* line 65: throw err
Rethrow(e) == Throw(e)

SetFields(b) ==
    /\ state' = b.state
    /\ failureCount' = b.failureCount
    /\ successCount' = b.successCount
    /\ nextAttempt' = b.nextAttempt

\* ---- the options of the constructor ----
\* an optional field of the options object: omitted, or given with a value
Omitted == [given |-> FALSE, value |-> 0]
Given(v) == [given |-> TRUE, value |-> v]
OptionValues == {Omitted} \cup {Given(v) : v \in 0..MaxOption}

\* mutant of NullishCoalesce: options.x || d, which also replaces a given 0
LogicalOr(o, d) == IF o.given /\ o.value # 0 THEN o.value ELSE d
\* lines 22-24: options.x ?? d
NullishCoalesce(o, d) == IF o.given THEN o.value ELSE d

\* ---- the ordering chain ----
Handlers == {"Auth", "Validate", "Order"}
Null == "null"
NoRequest == [isAuthenticated |-> FALSE, isValid |-> FALSE,
              orderDataValid |-> FALSE]
Pending == [kind |-> "pending", val |-> "none"]
\* base-chain line 28: freshly constructed handlers have no next handler; no
\* setNext and no handle call has been made
FreshChain ==
    /\ nexthandler = [h \in Handlers |-> Null]
    /\ setNextRet = Null
    /\ built = << >>
    /\ request = NoRequest
    /\ cur = Null
    /\ trace = << >>
    /\ result = Nothing

\* ---- the state machine ----
\* lines 15-25: field initialisers and constructor, options drawn from small sets
Init ==
    /\ state = "CLOSED"
    /\ failureCount = 0
    /\ successCount = 0
    /\ now = 0
    /\ nextAttempt = now
    /\ failureThreshold \in 1..MaxFailureThreshold
    /\ successThreshold \in 0..MaxSuccessThreshold
    /\ timeout \in 0..MaxTimeout
    /\ pc = [c \in Callers |-> "idle"]
    /\ calls = 0
    /\ invocations = 0
    /\ rejections = 0
    /\ nFail = 0
    /\ nSucc = 0
    /\ winSucc = 0
    /\ overlap = FALSE
    /\ admitted = [c \in Callers |-> "none"]
    /\ lastInvoke = now
    /\ fSinceClose = 0
    /\ sSinceReset = 0
    /\ trips = 0
    /\ halfOpens = 0
    /\ closes = 0
    /\ last = [op |-> "init", c |-> 0, from |-> "CLOSED", ret |-> Nothing,
               act |-> Nothing]
    /\ window = [c \in Callers |-> 0]
    /\ probeSucc = 0
    /\ options = [failureThreshold |-> Given(failureThreshold),
                  successThreshold |-> Given(successThreshold),
                  timeout |-> Given(timeout)]
    /\ FreshChain

\* lines 27-40: a caller calls fire; the gate, then the action is invoked
fire(c) ==
    /\ UNCHANGED others
    /\ pc[c] = "idle"
    \* callers are interchangeable: a new call takes the first free caller
    /\ \A d \in Callers : d < c => pc[d] = "await"
    /\ calls < MaxCalls
    /\ calls' = calls + 1
    /\ LET g == Gate(This, now)
       IN  /\ SetFields(g.b)
           /\ winSucc' = IF state = "OPEN" /\ g.b.state = "HALF_OPEN"
                         THEN 0 ELSE winSucc
           /\ halfOpens' = halfOpens + (IF g.probe THEN 1 ELSE 0)
           /\ probeSucc' = IF g.probe THEN 0 ELSE probeSucc
           /\ window' = IF g.admit /\ g.b.state = "HALF_OPEN"
                        THEN [window EXCEPT ![c] = halfOpens']
                        ELSE window
           /\ trips' = trips + (IF state # "OPEN" /\ g.b.state = "OPEN"
                                 THEN 1 ELSE 0)
           /\ IF g.admit
              THEN /\ pc' = [pc EXCEPT ![c] = "await"]
                   /\ invocations' = invocations + 1
                   /\ admitted' = [admitted EXCEPT ![c] = g.b.state]
                   /\ lastInvoke' = now
                   /\ UNCHANGED rejections
                   /\ overlap' = (overlap \/ \E d \in Callers : pc[d] = "await")
                   /\ last' = [op |-> "fire", c |-> c, from |-> state,
                               ret |-> Nothing, act |-> Nothing]
              ELSE /\ last' = [op |-> "fire", c |-> c, from |-> state,
                               ret |-> Throw(CircuitOpenMessage),
                               act |-> Nothing]
                   /\ rejections' = rejections + 1
                   /\ UNCHANGED <<pc, invocations, overlap, admitted,
                                  lastInvoke>>
    /\ UNCHANGED <<config, now, nFail, nSucc, fSinceClose, sSinceReset,
                   closes>>

\* lines 40-54: the action's promise fulfils with r
fireResolved(c, r) ==
    /\ UNCHANGED others
    /\ pc[c] = "await"
    /\ SetFields(OnSuccess(This))
    /\ pc' = [pc EXCEPT ![c] = "idle"]
    /\ admitted' = [admitted EXCEPT ![c] = "none"]
    /\ nSucc' = nSucc + 1
    /\ winSucc' = winSucc + 1
    /\ probeSucc' = IF state = "HALF_OPEN" /\ window[c] = halfOpens
                    THEN probeSucc + 1 ELSE probeSucc
    /\ window' = [window EXCEPT ![c] = 0]
    /\ fSinceClose' = IF state # "CLOSED" /\ state' = "CLOSED"
                      THEN 0 ELSE fSinceClose
    /\ sSinceReset' = IF state # "CLOSED" /\ state' = "CLOSED"
                      THEN 0 ELSE sSinceReset + 1
    /\ closes' = closes + (IF ShouldClose(state, successCount + 1)
                           THEN 1 ELSE 0)
    /\ trips' = trips + (IF state # "OPEN" /\ state' = "OPEN" THEN 1 ELSE 0)
    /\ last' = [op |-> "resolved", c |-> c, from |-> state,
                ret |-> Return(r), act |-> Return(r)]
    /\ UNCHANGED <<config, now, calls, invocations, rejections, nFail,
                   overlap, lastInvoke, halfOpens>>

\* mutant of fireRejected: a failure while CLOSED invokes the action again
fireRejectedRetries(c, e) ==
    /\ UNCHANGED others
    /\ pc[c] = "await"
    /\ SetFields(OnFailure(This, now))
    /\ pc' = [pc EXCEPT ![c] = IF state = "CLOSED" THEN "await" ELSE "idle"]
    /\ invocations' = invocations + (IF state = "CLOSED" THEN 1 ELSE 0)
    /\ admitted' = [admitted EXCEPT ![c] = IF state = "CLOSED" THEN @
                                           ELSE "none"]
    /\ window' = [window EXCEPT ![c] = 0]
    /\ UNCHANGED probeSucc
    /\ nFail' = nFail + 1
    /\ fSinceClose' = fSinceClose + 1
    /\ sSinceReset' = IF state' = "OPEN" THEN 0 ELSE sSinceReset
    /\ trips' = trips + (IF state # "OPEN" /\ state' = "OPEN" THEN 1 ELSE 0)
    /\ last' = [op |-> "rejected", c |-> c, from |-> state,
                ret |-> Rethrow(e), act |-> Throw(e)]
    /\ UNCHANGED <<config, now, calls, rejections, nSucc, winSucc, overlap,
                   lastInvoke, halfOpens, closes>>
\* lines 55-66: the action's promise rejects with e
fireRejected(c, e) ==
    /\ UNCHANGED others
    /\ pc[c] = "await"
    /\ SetFields(OnFailure(This, now))
    /\ pc' = [pc EXCEPT ![c] = "idle"]
    /\ admitted' = [admitted EXCEPT ![c] = "none"]
    /\ window' = [window EXCEPT ![c] = 0]
    /\ UNCHANGED probeSucc
    /\ nFail' = nFail + 1
    /\ fSinceClose' = fSinceClose + 1
    /\ sSinceReset' = IF state' = "OPEN" THEN 0 ELSE sSinceReset
    /\ trips' = trips + (IF state # "OPEN" /\ state' = "OPEN" THEN 1 ELSE 0)
    /\ last' = [op |-> "rejected", c |-> c, from |-> state,
                ret |-> Rethrow(e), act |-> Throw(e)]
    /\ UNCHANGED <<config, now, calls, invocations, rejections, nSucc,
                   winSucc, overlap, lastInvoke, halfOpens, closes>>

\* mutant of getState: the query moves an OPEN breaker whose cooldown has
\* elapsed to HALF_OPEN
getStateRefreshes ==
    /\ UNCHANGED others
    /\ UNCHANGED probes
    /\ state' = IF state = "OPEN" /\ CooldownElapsed(now, nextAttempt)
                THEN "HALF_OPEN" ELSE state
    /\ last' = [op |-> "getState", c |-> 0, from |-> state,
                ret |-> Return(state'), act |-> Nothing]
    /\ UNCHANGED <<failureCount, successCount, nextAttempt, config, now, pc,
                   calls, invocations, rejections, nFail, nSucc, winSucc,
                   overlap, admitted, lastInvoke, fSinceClose, sSinceReset,
                   trips, halfOpens, closes>>
\* lines 69-71
getState ==
    /\ UNCHANGED others
    /\ UNCHANGED probes
    /\ last' = [op |-> "getState", c |-> 0, from |-> state,
                ret |-> Return(state), act |-> Nothing]
    /\ UNCHANGED <<fields, config, now, pc, calls, invocations, rejections,
                   nFail, nSucc, winSucc, overlap, admitted, lastInvoke, fSinceClose,
                   sSinceReset, trips, halfOpens, closes>>

\* mutant of Tick: a call pending for longer than timeout is failed by the
\* breaker
TickTimesOut ==
    /\ UNCHANGED others
    /\ UNCHANGED probes
    /\ now < MaxTime
    /\ now' = now + 1
    /\ last' = [op |-> "tick", c |-> 0, from |-> state, ret |-> Nothing,
                act |-> Nothing]
    /\ IF (\E c \in Callers : pc[c] = "await") /\ now' - lastInvoke > timeout
       THEN /\ SetFields(OnFailure(This, now'))
            /\ pc' = [c \in Callers |-> "idle"]
       ELSE UNCHANGED <<fields, pc>>
    /\ UNCHANGED <<config, calls, invocations, rejections,
                   nFail, nSucc, winSucc, overlap, admitted, lastInvoke,
                   fSinceClose, sSinceReset, trips, halfOpens, closes>>
\* the clock advances by one millisecond
Tick ==
    /\ UNCHANGED others
    /\ UNCHANGED probes
    /\ now < MaxTime
    /\ now' = now + 1
    /\ last' = [op |-> "tick", c |-> 0, from |-> state, ret |-> Nothing,
                act |-> Nothing]
    /\ UNCHANGED <<fields, config, pc, calls, invocations, rejections,
                   nFail, nSucc, winSucc, overlap, admitted, lastInvoke, fSinceClose,
                   sSinceReset, trips, halfOpens, closes>>

Next ==
    \/ \E c \in Callers : fire(c)
    \/ \E c \in Callers, r \in Results : fireResolved(c, r)
    \/ \E c \in Callers, e \in Errors : fireRejected(c, e)
    \/ getState
    \/ Tick

Spec == Init /\ [][Next]_vars

TypeOK ==
    /\ state \in {"CLOSED", "OPEN", "HALF_OPEN"}
    /\ failureCount \in Nat
    /\ successCount \in Nat
    /\ nextAttempt \in Nat
    /\ now \in 0..MaxTime
    /\ pc \in [Callers -> {"idle", "await"}]

\* ---- the breaker under sequential calls, for recovery ----
\* One caller calls fire again and again, each call after the previous one
\* has settled. At most MaxFail action calls fail, so every run has a point
\* after which every action call succeeds. The clock goes on past MaxTime
\* as long as the deadline nextAttempt has not passed; once CLOSED, calls
\* are made while successCount <= MaxSuccessCount. The counting history
\* variables of overlapping runs are left alone.
seqCaller == 1

\* lines 27-40: fire is called; the gate, then the action is invoked
fireSeq ==
    /\ UNCHANGED others
    /\ pc[seqCaller] = "idle"
    /\ state = "CLOSED" => successCount <= MaxSuccessCount
    /\ LET g == Gate(This, now)
       IN  /\ SetFields(g.b)
           /\ halfOpens' = halfOpens + (IF g.probe THEN 1 ELSE 0)
           /\ IF g.admit
              THEN /\ pc' = [pc EXCEPT ![seqCaller] = "await"]
                   /\ last' = [op |-> "fire", c |-> seqCaller, from |-> state,
                               ret |-> Nothing, act |-> Nothing]
              ELSE /\ last' = [op |-> "fire", c |-> seqCaller, from |-> state,
                               ret |-> Throw(CircuitOpenMessage),
                               act |-> Nothing]
                   /\ UNCHANGED pc
    /\ UNCHANGED <<config, now, calls, invocations, rejections, nFail, nSucc,
                   winSucc, overlap, admitted, lastInvoke, fSinceClose,
                   sSinceReset, trips, closes, probes>>

\* lines 40-54: the action's promise fulfils with r
fireSeqResolved(r) ==
    /\ UNCHANGED others
    /\ pc[seqCaller] = "await"
    /\ SetFields(OnSuccess(This))
    /\ pc' = [pc EXCEPT ![seqCaller] = "idle"]
    /\ closes' = closes + (IF state # "CLOSED" /\ state' = "CLOSED"
                           THEN 1 ELSE 0)
    /\ last' = [op |-> "resolved", c |-> seqCaller, from |-> state,
                ret |-> Return(r), act |-> Return(r)]
    /\ UNCHANGED <<config, now, calls, invocations, rejections, nFail, nSucc,
                   winSucc, overlap, admitted, lastInvoke, fSinceClose,
                   sSinceReset, trips, halfOpens, probes>>

\* lines 55-66: the action's promise rejects with e
fireSeqRejected(e) ==
    /\ UNCHANGED others
    /\ pc[seqCaller] = "await"
    /\ nFail < MaxFail
    /\ nFail' = nFail + 1
    /\ SetFields(OnFailure(This, now))
    /\ pc' = [pc EXCEPT ![seqCaller] = "idle"]
    /\ trips' = trips + (IF state # "OPEN" /\ state' = "OPEN" THEN 1 ELSE 0)
    /\ last' = [op |-> "rejected", c |-> seqCaller, from |-> state,
                ret |-> Rethrow(e), act |-> Throw(e)]
    /\ UNCHANGED <<config, now, calls, invocations, rejections, nSucc,
                   winSucc, overlap, admitted, lastInvoke, fSinceClose,
                   sSinceReset, halfOpens, closes, probes>>

\* the clock advances by one millisecond, also past MaxTime while the
\* deadline has not passed
TickOn ==
    /\ UNCHANGED others
    /\ now < MaxTime \/ now <= nextAttempt
    /\ now' = now + 1
    /\ last' = [op |-> "tick", c |-> 0, from |-> state, ret |-> Nothing,
                act |-> Nothing]
    /\ UNCHANGED <<fields, config, pc, calls, invocations, rejections,
                   nFail, nSucc, winSucc, overlap, admitted, lastInvoke,
                   fSinceClose, sSinceReset, trips, halfOpens, closes, probes>>

settle ==
    \/ \E r \in Results : fireSeqResolved(r)
    \/ \E e \in Errors : fireSeqRejected(e)

NextRecovery ==
    \/ fireSeq
    \/ \E r \in Results : fireSeqResolved(r)
    \/ \E e \in Errors : fireSeqRejected(e)
    \/ TickOn

\* fire keeps being called, every action call settles, time keeps advancing
SpecRecovery ==
    /\ Init
    /\ [][NextRecovery]_vars
    /\ WF_vars(fireSeq)
    /\ WF_vars(settle)
    /\ WF_vars(TickOn)

\* ---- the constructor on options that may be omitted ----
Unconstructed == "unconstructed"

\* before new CircuitBreaker(action, options): the options object and the
\* time are drawn from small sets; the fields do not exist yet
NoBreaker ==
    /\ state = Unconstructed
    /\ failureCount = 0
    /\ successCount = 0
    /\ nextAttempt = 0
    /\ failureThreshold = 0
    /\ successThreshold = 0
    /\ timeout = 0
    /\ pc = [c \in Callers |-> "idle"]
    /\ calls = 0
    /\ invocations = 0
    /\ rejections = 0
    /\ nFail = 0
    /\ nSucc = 0
    /\ winSucc = 0
    /\ overlap = FALSE
    /\ admitted = [c \in Callers |-> "none"]
    /\ lastInvoke = 0
    /\ fSinceClose = 0
    /\ sSinceReset = 0
    /\ trips = 0
    /\ halfOpens = 0
    /\ closes = 0
    /\ last = [op |-> "init", c |-> 0, from |-> Unconstructed, ret |-> Nothing,
               act |-> Nothing]
    /\ window = [c \in Callers |-> 0]
    /\ probeSucc = 0

InitCtor ==
    /\ options \in [failureThreshold : OptionValues,
                    successThreshold : OptionValues,
                    timeout : OptionValues]
    /\ now \in 0..MaxTime
    /\ NoBreaker
    /\ FreshChain

\* lines 15-25: the field initialisers and the constructor body
constructor ==
    /\ state = Unconstructed
    /\ state' = "CLOSED"
    /\ failureCount' = 0
    /\ successCount' = 0
    /\ nextAttempt' = now
    /\ failureThreshold' = NullishCoalesce(options.failureThreshold,
                                           DefaultFailureThreshold)
    /\ successThreshold' = NullishCoalesce(options.successThreshold,
                                           DefaultSuccessThreshold)
    /\ timeout' = NullishCoalesce(options.timeout, DefaultTimeout)
    /\ last' = [op |-> "constructor", c |-> 0, from |-> state,
                ret |-> Nothing, act |-> Nothing]
    /\ UNCHANGED <<now, pc, calls, invocations, rejections, nFail, nSucc,
                   winSucc, overlap, admitted, lastInvoke, fSinceClose,
                   sSinceReset, trips, halfOpens, closes>>
    /\ UNCHANGED others
    /\ UNCHANGED probes

NextCtor ==
    \/ constructor
    \/ Tick

SpecCtor == InitCtor /\ [][NextCtor]_<<vars, others>>

\* ---- the draft breaker CircuitBreakerPattern (src/circuit-breaker.ts) ----
\* mutant of actGate: lines 37-39 not commented out
actGateProbes(b, t) ==
    IF b.state = "OPEN"
    THEN [b |-> IF t > b.nextAttempt THEN [b EXCEPT !.state = "HALF_OPEN"]
                ELSE b,
          admit |-> FALSE]
    ELSE [b |-> b, admit |-> TRUE]
\* lines 36-41: an OPEN draft breaker returns a rejected promise; the
\* transition to HALF_OPEN is commented out
actGate(b, t) ==
    IF b.state = "OPEN"
    THEN [b |-> b, admit |-> FALSE]
    ELSE [b |-> b, admit |-> TRUE]

\* line 44: this.successCount++
actOnSuccess(b) == [b EXCEPT !.successCount = @ + 1]

\* lines 51-55: the catch block
actOnFailure(b, t) ==
    LET fc == b.failureCount + 1
    IN  IF fc >= failureThreshold
        THEN [b EXCEPT !.failureCount = fc, !.state = "OPEN",
                       !.nextAttempt = t + timeout]
        ELSE [b EXCEPT !.failureCount = fc]

\* mutant of actCaught: the catch block ends with throw err
actCaughtRethrows(e) == Throw(e)
\* lines 50-57: the catch block ends without a throw or a return: act's
\* promise fulfils with undefined
actCaught(e) == Return("undefined")

\* lines 32-43: a caller calls act; the gate, then the action is invoked
act(c) ==
    /\ UNCHANGED others
    /\ UNCHANGED probes
    /\ pc[c] = "idle"
    /\ \A d \in Callers : d < c => pc[d] = "await"
    /\ calls < MaxCalls
    /\ calls' = calls + 1
    /\ LET g == actGate(This, now)
       IN  /\ SetFields(g.b)
           /\ IF g.admit
              THEN /\ pc' = [pc EXCEPT ![c] = "await"]
                   /\ invocations' = invocations + 1
                   /\ admitted' = [admitted EXCEPT ![c] = g.b.state]
                   /\ lastInvoke' = now
                   /\ UNCHANGED rejections
                   /\ overlap' = (overlap \/ \E d \in Callers : pc[d] = "await")
                   /\ last' = [op |-> "act", c |-> c, from |-> state,
                               ret |-> Nothing, act |-> Nothing]
              ELSE /\ last' = [op |-> "act", c |-> c, from |-> state,
                               ret |-> Throw(CircuitOpenMessage),
                               act |-> Nothing]
                   /\ rejections' = rejections + 1
                   /\ UNCHANGED <<pc, invocations, overlap, admitted,
                                  lastInvoke>>
    /\ UNCHANGED <<config, now, nFail, nSucc, winSucc, fSinceClose,
                   sSinceReset, trips, halfOpens, closes>>

\* lines 43-49: the action's promise fulfils with r
actResolved(c, r) ==
    /\ UNCHANGED others
    /\ UNCHANGED probes
    /\ pc[c] = "await"
    /\ SetFields(actOnSuccess(This))
    /\ pc' = [pc EXCEPT ![c] = "idle"]
    /\ admitted' = [admitted EXCEPT ![c] = "none"]
    /\ nSucc' = nSucc + 1
    /\ last' = [op |-> "resolved", c |-> c, from |-> state,
                ret |-> Return(r), act |-> Return(r)]
    /\ UNCHANGED <<config, now, calls, invocations, rejections, nFail,
                   winSucc, overlap, lastInvoke, fSinceClose, sSinceReset,
                   trips, halfOpens, closes>>

\* lines 43, 50-57: the action throws or its promise rejects with e
actRejected(c, e) ==
    /\ UNCHANGED others
    /\ UNCHANGED probes
    /\ pc[c] = "await"
    /\ SetFields(actOnFailure(This, now))
    /\ pc' = [pc EXCEPT ![c] = "idle"]
    /\ admitted' = [admitted EXCEPT ![c] = "none"]
    /\ nFail' = nFail + 1
    /\ trips' = trips + (IF state # "OPEN" /\ state' = "OPEN" THEN 1 ELSE 0)
    /\ last' = [op |-> "rejected", c |-> c, from |-> state,
                ret |-> actCaught(e), act |-> Throw(e)]
    /\ UNCHANGED <<config, now, calls, invocations, rejections, nSucc,
                   winSucc, overlap, lastInvoke, fSinceClose, sSinceReset,
                   halfOpens, closes>>

NextDraft ==
    \/ \E c \in Callers : act(c)
    \/ \E c \in Callers, r \in Results : actResolved(c, r)
    \/ \E c \in Callers, e \in Errors : actRejected(c, e)
    \/ Tick

\* the draft's constructor (circuit-breaker.ts 19-30) is the constructor of
\* app.ts: the draft starts in the states of Init
SpecDraft == Init /\ [][NextDraft]_vars

\* ---- the ordering chain Auth, Validate, Order over BaseChain ----
Requests == [isAuthenticated : BOOLEAN, isValid : BOOLEAN,
             orderDataValid : BOOLEAN]

\* mutant of Passes: Order tests request.isValid
PassesOrderTestsIsValid(h, req) ==
    CASE h = "Auth" -> req.isAuthenticated
      [] h = "Validate" -> req.isValid
      [] h = "Order" -> req.isValid
\* lines 50, 63, 76: the flag each handler tests
Passes(h, req) ==
    CASE h = "Auth" -> req.isAuthenticated
      [] h = "Validate" -> req.isValid
      [] h = "Order" -> req.orderDataValid

\* lines 51, 68, 80: the message each handler returns when its test fails
FailureMessage(h) ==
    CASE h = "Auth" -> "Authentication failed. Access denied."
      [] h = "Validate" -> "Validation failed. Invalid data provided."
      [] h = "Order" -> "Order processing failed. Invalid order data."

\* mutant of SetNextReturn: setNext returns this
SetNextReturnsThis(this, handler) == this
\* line 34: return handler
SetNextReturn(this, handler) == handler

\* mutant of BaseHandle: the base forwards to this.handle
BaseHandleForwardsToSelf(h) == [kind |-> "forward", to |-> h, val |-> Null]
\* lines 37-43: BaseChain.handle forwards to the next handler or returns null
BaseHandle(h) ==
    IF nexthandler[h] # Null
    THEN [kind |-> "forward", to |-> nexthandler[h], val |-> Null]
    ELSE [kind |-> "return", to |-> Null, val |-> Null]

\* lines 49-55, 61-69, 75-81: a handler's own handle
Handle(h, req) ==
    IF Passes(h, req)
    THEN BaseHandle(h)
    ELSE [kind |-> "return", to |-> Null, val |-> FailureMessage(h)]

\* lines 32-35: this.setNext(handler); chained tells whether the receiver is
\* the value of the previous setNext call
SetNext(this, handler, chained) ==
    /\ result = Nothing
    /\ Len(built) < MaxSetNext
    /\ nexthandler' = [nexthandler EXCEPT ![this] = handler]
    /\ setNextRet' = SetNextReturn(this, handler)
    /\ built' = Append(built, [chained |-> chained,
                               recv |-> IF chained THEN Null ELSE this,
                               arg |-> handler])
    /\ UNCHANGED <<request, cur, trace, result>>
    /\ UNCHANGED <<vars, options>>

\* the statement h.setNext(g)
setNext(h, g) == SetNext(h, g, FALSE)

\* the continuation .setNext(g) of a chain of calls
setNextChained(g) ==
    /\ setNextRet # Null
    /\ SetNext(setNextRet, g, TRUE)

\* the client calls h.handle(req)
handle(h, req) ==
    /\ result = Nothing
    /\ cur' = h
    /\ request' = req
    /\ result' = Pending
    /\ UNCHANGED <<nexthandler, setNextRet, built, trace>>
    /\ UNCHANGED <<vars, options>>

\* the body of the running handler's handle: it returns, which returns from
\* every enclosing handle (each is `return <call>`), or it calls the next
\* handler's handle. The trace is kept up to MaxTrace entries; a nested call
\* at that depth stands for one at the depth of the engine's call stack: it
\* goes on where the engine eliminates the call in tail position (line 40)
\* and throws RangeError where it does not
handleRun ==
    /\ result = Pending
    /\ cur # Null
    /\ trace' = IF Len(trace) < MaxTrace THEN Append(trace, cur) ELSE trace
    /\ LET o == Handle(cur, request)
       IN  IF o.kind = "return"
           THEN /\ result' = Return(o.val)
                /\ cur' = Null
           ELSE \/ /\ result' = Pending
                   /\ cur' = o.to
                \/ /\ Len(trace) >= MaxTrace
                   /\ result' = Throw("RangeError")
                   /\ cur' = Null
    /\ UNCHANGED <<nexthandler, setNextRet, built, request>>
    /\ UNCHANGED <<vars, options>>

InitChain ==
    /\ FreshChain
    /\ NoBreaker
    /\ now = 0
    /\ options = [failureThreshold |-> Omitted, successThreshold |-> Omitted,
                  timeout |-> Omitted]

NextChain ==
    \/ \E h \in Handlers, g \in Handlers : setNext(h, g)
    \/ \E g \in Handlers : setNextChained(g)
    \/ \E h \in Handlers, req \in Requests : handle(h, req)
    \/ handleRun

SpecChain == InitChain /\ [][NextChain]_chainVars

\* handle is synchronous code: a running handle goes on
SpecChainFair == SpecChain /\ WF_chainVars(handleRun)

\* ---- the logger chain DebugLogger, ErrorLogger, InfoLogger over BaseLogger ----
\* The chain variables hold the loggers' state: nexthandler is
\* BaseLogger.nextHandler, request is the msg argument of log.
Loggers == {"DebugLogger", "ErrorLogger", "InfoLogger"}
Undefined == "undefined"
LogRequests == [isDebug : BOOLEAN, isCritical : BOOLEAN, isInfoOnly : BOOLEAN]

\* mutant of LogPasses: every logger passes the request on
LogPassesAlways(l, msg) == TRUE
\* debug-logger.ts 6, part_004 6, part_003 867: the flag each logger tests
LogPasses(l, msg) ==
    CASE l = "DebugLogger" -> msg.isDebug
      [] l = "ErrorLogger" -> msg.isCritical
      [] l = "InfoLogger" -> msg.isInfoOnly

\* base-logger lines 17-22: BaseLogger.log forwards to the next logger or
\* returns null
BaseLog(l) ==
    IF nexthandler[l] # Undefined
    THEN [kind |-> "forward", to |-> nexthandler[l], val |-> Null]
    ELSE [kind |-> "return", to |-> Undefined, val |-> Null]

\* debug-logger.ts 4-10, part_004 4-12, part_003 865-871: a logger's own
\* log: super.log when its flag is truthy, otherwise a bare return
Log(l, msg) ==
    IF LogPasses(l, msg)
    THEN BaseLog(l)
    ELSE [kind |-> "return", to |-> Undefined, val |-> Undefined]

\* base-logger lines 12-15: this.setNext(handler) stores and returns handler
LoggerSetNext(this, handler, chained) ==
    /\ result = Nothing
    /\ Len(built) < MaxSetNext
    /\ nexthandler' = [nexthandler EXCEPT ![this] = handler]
    /\ setNextRet' = handler
    /\ built' = Append(built, [chained |-> chained,
                               recv |-> IF chained THEN Undefined ELSE this,
                               arg |-> handler])
    /\ UNCHANGED <<request, cur, trace, result>>
    /\ UNCHANGED <<vars, options>>

\* the statement l.setNext(g)
loggerSetNext(l, g) == LoggerSetNext(l, g, FALSE)

\* the continuation .setNext(g) of a chain of calls
loggerSetNextChained(g) ==
    /\ setNextRet # Undefined
    /\ LoggerSetNext(setNextRet, g, TRUE)

\* the client calls l.log(msg)
log(l, msg) ==
    /\ result = Nothing
    /\ cur' = l
    /\ request' = msg
    /\ result' = Pending
    /\ UNCHANGED <<nexthandler, setNextRet, built, trace>>
    /\ UNCHANGED <<vars, options>>

\* the body of the running logger's log: it returns, which returns from
\* every enclosing log, or it calls the next logger's log; nested calls at
\* depth MaxTrace are treated as in handleRun
logRun ==
    /\ result = Pending
    /\ cur # Undefined
    /\ trace' = IF Len(trace) < MaxTrace THEN Append(trace, cur) ELSE trace
    /\ LET o == Log(cur, request)
       IN  IF o.kind = "return"
           THEN /\ result' = Return(o.val)
                /\ cur' = Undefined
           ELSE \/ /\ result' = Pending
                   /\ cur' = o.to
                \/ /\ Len(trace) >= MaxTrace
                   /\ result' = Throw("RangeError")
                   /\ cur' = Undefined
    /\ UNCHANGED <<nexthandler, setNextRet, built, request>>
    /\ UNCHANGED <<vars, options>>

\* base-logger line 10: freshly constructed loggers have no next handler
InitLoggers ==
    /\ nexthandler = [l \in Loggers |-> Undefined]
    /\ setNextRet = Undefined
    /\ built = << >>
    /\ request = [isDebug |-> FALSE, isCritical |-> FALSE,
                  isInfoOnly |-> FALSE]
    /\ cur = Undefined
    /\ trace = << >>
    /\ result = Nothing
    /\ NoBreaker
    /\ now = 0
    /\ options = [failureThreshold |-> Omitted, successThreshold |-> Omitted,
                  timeout |-> Omitted]

NextLoggers ==
    \/ \E l \in Loggers, g \in Loggers : loggerSetNext(l, g)
    \/ \E g \in Loggers : loggerSetNextChained(g)
    \/ \E l \in Loggers, msg \in LogRequests : log(l, msg)
    \/ logRun

SpecLoggers == InitLoggers /\ [][NextLoggers]_chainVars

\* ---- the claims ----

\* C1 (trip): from a fresh breaker, with non-overlapping calls that all fail,
\* the failureThreshold-th failure leaves the state OPEN; and a fire call made
\* after it while the time is before nextAttempt is rejected with the
\* circuit-open error and the action invocation count stays at failureThreshold.
TripAfterThresholdFailures ==
    [][ /\ (~overlap' /\ nSucc = 0 /\ last'.op = "rejected"
              /\ nFail' = failureThreshold)
           => state' = "OPEN"
        /\ (~overlap /\ nSucc = 0 /\ nFail = failureThreshold
              /\ state = "OPEN" /\ now < nextAttempt /\ last'.op = "fire")
           => /\ last'.ret = Throw(CircuitOpenMessage)
              /\ invocations' = failureThreshold ]_vars

TripWitness ==
    /\ failureThreshold = MaxFailureThreshold
    /\ ~overlap /\ nSucc = 0 /\ nFail = failureThreshold
    /\ state = "OPEN" /\ now < nextAttempt
    /\ last.op = "fire" /\ last.ret = Throw(CircuitOpenMessage)
    /\ invocations = failureThreshold

\* C2 (cooldown): a fire call made while the state is OPEN and the time is
\* strictly before nextAttempt fails with the circuit-open error and does not
\* invoke the action.
CooldownRejects ==
    [][ (state = "OPEN" /\ now < nextAttempt /\ last'.op = "fire")
        => /\ last'.ret = Throw(CircuitOpenMessage)
           /\ invocations' = invocations ]_vars

CooldownWitness ==
    /\ last.op = "fire" /\ last.from = "OPEN"
    /\ last.ret = Throw(CircuitOpenMessage)
    /\ state = "OPEN" /\ now < nextAttempt
    /\ nSucc > 0 /\ now > 0

RecoveryOnThresholdPlusOne ==
    [][ ~overlap' =>
        /\ (state = "HALF_OPEN" /\ last'.op = "resolved"
              /\ winSucc' = successThreshold + 1)
           => (state' = "CLOSED" /\ failureCount' = 0 /\ successCount' = 0)
        /\ (state = "HALF_OPEN" /\ last'.op = "resolved"
              /\ winSucc' <= successThreshold)
           => (state' = "HALF_OPEN" /\ successCount' = winSucc')
        /\ (state # "CLOSED" /\ state' = "CLOSED")
           => (state = "HALF_OPEN" /\ last'.op = "resolved"
                 /\ winSucc' = successThreshold + 1) ]_vars

RecoveryWitness ==
    /\ ~overlap /\ successThreshold = MaxSuccessThreshold
    /\ last.op = "resolved" /\ last.from = "HALF_OPEN"
    /\ state = "CLOSED" /\ winSucc = successThreshold + 1
    /\ failureCount = 0 /\ successCount = 0

\* C5 (probe failure): an action call that fails while the state is HALF_OPEN
\* leaves the state OPEN and nextAttempt at the current time plus timeout,
\* whatever the threshold and the number of earlier probe successes.
ProbeFailureReopens ==
    [][ (state = "HALF_OPEN" /\ last'.op = "rejected")
        => (state' = "OPEN" /\ nextAttempt' = now + timeout) ]_vars

ProbeFailureWitness ==
    /\ last.op = "rejected" /\ last.from = "HALF_OPEN"
    /\ state = "OPEN" /\ nextAttempt = now + timeout
    /\ winSucc >= 1 /\ failureThreshold = MaxFailureThreshold
    /\ timeout > 0

\* C6 (closed reset): a successful call completing while the state is CLOSED
\* sets failureCount to 0.
ClosedSuccessResetsFailureCount ==
    (last.op = "resolved" /\ last.from = "CLOSED") => failureCount = 0

\* C7 (outcome transparency): what fire delivers for a forwarded call is what
\* the action produced: the same result on success, the same error on failure,
\* in every state and whether or not the failure trips the breaker.
OutcomeTransparent ==
    last.op \in {"resolved", "rejected"} => last.ret = last.act

OutcomeWitness ==
    /\ last.op = "rejected" /\ last.from = "CLOSED" /\ state = "OPEN"
    /\ last.ret = Throw("Service failed!")

\* C8 (no hang while OPEN): a fire call starting while the state is OPEN and
\* the cooldown has not elapsed ends in that same step with a rejection; it
\* does not wait, and the pending calls of the other callers stay pending.
OpenRejectionIsImmediate ==
    [][ (state = "OPEN" /\ now <= nextAttempt /\ last'.op = "fire")
        => /\ pc'[last'.c] = "idle"
           /\ last'.ret.kind = "throw"
           /\ pc' = pc ]_vars

OpenRejectionWitness ==
    /\ last.op = "fire" /\ last.from = "OPEN" /\ last.ret.kind = "throw"
    /\ pc[last.c] = "idle"
    /\ \E d \in Callers : pc[d] = "await"

\* C9: a fire call rejected because the breaker is OPEN leaves state,
\* failureCount, successCount and nextAttempt unchanged.
RejectionChangesNoField ==
    [][ (last'.op = "fire" /\ last'.ret = Throw(CircuitOpenMessage))
        => UNCHANGED fields ]_vars

RejectionFrameWitness ==
    /\ last.op = "fire" /\ last.ret = Throw(CircuitOpenMessage)
    /\ state = "OPEN" /\ failureCount > failureThreshold
    /\ nextAttempt > 0

\* C10: the breaker rejects only calls that start in OPEN: a fire call that
\* starts in CLOSED or HALF_OPEN is forwarded to the action, whatever the
\* counters and the clock are.
ClosedAndHalfOpenForward ==
    [][ (last'.op = "fire" /\ state \in {"CLOSED", "HALF_OPEN"})
        => /\ pc'[last'.c] = "await"
           /\ invocations' = invocations + 1
           /\ last'.ret = Nothing ]_vars

ForwardWitness ==
    /\ last.op = "fire" /\ last.from = "HALF_OPEN"
    /\ pc[last.c] = "await" /\ last.ret = Nothing
    /\ failureCount >= failureThreshold /\ now > nextAttempt

\* C11: in every reachable state, overlapping calls included, the state is
\* CLOSED exactly when failureCount < failureThreshold.
ClosedIffBelowThreshold ==
    (state = "CLOSED") <=> (failureCount < failureThreshold)

ClosedIffWitness ==
    /\ overlap /\ last.op = "rejected" /\ last.from = "CLOSED"
    /\ state = "CLOSED" /\ failureCount = 1 /\ nSucc > failureThreshold

\* C12 as stated: whenever the state is OPEN the current time is strictly
\* before nextAttempt (so getState never returns OPEN once the cooldown has
\* elapsed).
OpenOnlyBeforeNextAttempt ==
    state = "OPEN" => now < nextAttempt

\* C12 amended: a state that a fire call's gate leaves OPEN has the time at
\* or before nextAttempt; between fire calls the state stays OPEN however
\* much time passes.
OpenAfterGateOnlyUntilNextAttempt ==
    (last.op = "fire" /\ state = "OPEN") => now <= nextAttempt

OpenAfterGateWitness ==
    /\ last.op = "fire" /\ last.from = "OPEN" /\ state = "OPEN"
    /\ last.ret = Throw(CircuitOpenMessage)
    /\ now = nextAttempt /\ timeout > 0

\* C13: the state changes only along CLOSED -> OPEN, OPEN -> HALF_OPEN,
\* HALF_OPEN -> CLOSED and HALF_OPEN -> OPEN, in every interleaving.
\* (last.from is the state the last step started in)
OnlyLegalTransitions ==
    state # last.from =>
        <<last.from, state>> \in {<<"CLOSED", "OPEN">>, <<"OPEN", "HALF_OPEN">>,
                                  <<"HALF_OPEN", "CLOSED">>,
                                  <<"HALF_OPEN", "OPEN">>}

\* a call admitted before the trip succeeds while the breaker is OPEN, with
\* successCount above the threshold, and the breaker stays OPEN
LegalTransitionsWitness ==
    /\ last.op = "resolved" /\ last.from = "OPEN" /\ state = "OPEN"
    /\ successCount > successThreshold

\* C14: state, failureCount, successCount and nextAttempt change only in the
\* steps of fire: a getState call and the passage of time change none of them.
FieldsChangeOnlyInFire ==
    [][ /\ last'.op \in {"getState", "tick"} => UNCHANGED fields
        /\ ~(UNCHANGED fields) => last'.op \in {"fire", "resolved", "rejected"}
      ]_vars

FieldsFrameWitness ==
    /\ last.op = "getState" /\ last.ret = Return("OPEN")
    /\ state = "OPEN" /\ now > nextAttempt

\* C15: transitions are applied whole within one step: the step that enters
\* OPEN leaves nextAttempt at the current time plus timeout and successCount
\* at 0, and the step that enters CLOSED leaves both counters at 0.
\* (stated of the state right after the step, where other callers can run)
TransitionsAtomic ==
    /\ (last.from # "OPEN" /\ state = "OPEN")
       => (nextAttempt = now + timeout /\ successCount = 0)
    /\ (last.from # "CLOSED" /\ state = "CLOSED")
       => (failureCount = 0 /\ successCount = 0)

\* a trip out of CLOSED after successes had been counted, seen by a caller
\* whose own call is still pending
TransitionsAtomicWitness ==
    /\ last.op = "rejected" /\ last.from = "CLOSED" /\ state = "OPEN"
    /\ nSucc > 0 /\ successCount = 0 /\ nextAttempt = now + timeout
    /\ timeout > 0 /\ \E d \in Callers : pc[d] = "await"

\* C19: each fire call invokes the action at most once: once when admitted,
\* not at all when rejected, and never again after a failure; so the
\* invocations are the completed action calls plus the pending ones.
OneInvocationPerAdmittedCall ==
    /\ invocations = nSucc + nFail
                     + Cardinality({c \in Callers : pc[c] = "await"})
    /\ calls = invocations + rejections
    /\ (last.op = "fire" /\ last.ret = Throw(CircuitOpenMessage))
       => rejections > 0

OneInvocationWitness ==
    /\ last.op = "rejected" /\ nFail > failureThreshold /\ nSucc > 0
    /\ rejections > 0 /\ invocations = nSucc + nFail

\* C16 (no lost counter updates): in every interleaving each completed action
\* call is counted once: failureCount is the number of failed calls since the
\* last step into CLOSED, successCount the number of successful calls since
\* the last step that reset it (a step into CLOSED, or a failure that left the
\* state OPEN).
CountersMatchCompletions ==
    /\ failureCount = fSinceClose
    /\ successCount = sSinceReset

CountersWitness ==
    /\ overlap /\ successCount = 2 /\ failureCount = 1
    /\ last.op \in {"resolved", "rejected"}

\* C17 (no racing transitions): line 33 (OPEN -> HALF_OPEN) has run at most
\* once per entry into OPEN, and lines 48-50 (HALF_OPEN -> CLOSED) at most once
\* per entry into HALF_OPEN, in every interleaving of overlapping calls.
NoRacingTransitions ==
    /\ halfOpens <= trips
    /\ closes <= halfOpens
    /\ (state = "OPEN") => (halfOpens < trips)
    /\ (state = "HALF_OPEN") => (closes < halfOpens)

\* two probe calls were pending together in HALF_OPEN and the breaker closed
NoRacingWitness ==
    /\ overlap /\ closes = 1 /\ halfOpens = 1 /\ trips = 1
    /\ last.op = "resolved" /\ last.from = "HALF_OPEN" /\ state = "CLOSED"
    /\ \E d \in Callers : pc[d] = "await" /\ admitted[d] = "HALF_OPEN"

\* C18 (probe overshoot): a fire call that starts while the state is HALF_OPEN
\* is forwarded to the action however many probe calls are already pending,
\* so several probe calls can be in flight together.
HalfOpenAdmitsEveryCall ==
    (last.op = "fire" /\ last.from = "HALF_OPEN")
        => /\ state = "HALF_OPEN"
           /\ pc[last.c] = "await"
           /\ admitted[last.c] = "HALF_OPEN"
           /\ last.ret = Nothing

ProbeOvershootWitness ==
    /\ state = "HALF_OPEN"
    /\ Cardinality({c \in Callers : pc[c] = "await"
                                     /\ admitted[c] = "HALF_OPEN"}) >= 2

\* C20 (prevents hammering): with non-overlapping calls whose action always
\* fails, once the breaker has tripped an action invocation comes at least
\* timeout after the invocation before it.
InvocationsSpacedByTimeout ==
    [][ (~overlap' /\ nSucc' = 0 /\ state # "CLOSED"
           /\ invocations' = invocations + 1)
        => now - lastInvoke >= timeout ]_vars

InvocationsSpacedWitness ==
    /\ ~overlap /\ nSucc = 0 /\ timeout = MaxTimeout
    /\ last.op = "fire" /\ last.from = "OPEN" /\ state = "HALF_OPEN"
    /\ lastInvoke = now /\ nFail = failureThreshold

HalfOpenStepChangesOnlyState ==
    [][ (state = "OPEN" /\ state' = "HALF_OPEN")
        => UNCHANGED <<failureCount, successCount, nextAttempt>> ]_vars

\* a probe admitted with a success counted while the breaker was OPEN
HalfOpenStepWitness ==
    /\ last.op = "fire" /\ last.from = "OPEN" /\ state = "HALF_OPEN"
    /\ successCount > 0 /\ failureCount >= failureThreshold
    /\ nextAttempt > 0

\* C24: the breaker puts no time limit on a pending action call: a clock tick
\* completes no call, counts no failure and changes no field, however long
\* the call has been pending.
NoCallTimeout ==
    [][ last'.op = "tick"
        => UNCHANGED <<pc, state, failureCount, successCount, nextAttempt,
                       nFail, nSucc, rejections>> ]_vars

\* a call still pending in CLOSED more than timeout after it was admitted
NoCallTimeoutWitness ==
    /\ last.op = "tick" /\ state = "CLOSED" /\ timeout > 0
    /\ \E c \in Callers : pc[c] = "await"
    /\ now - lastInvoke > timeout
    /\ failureCount = 0

\* C30: with a clock that never runs backwards and timeout >= 0, nextAttempt
\* never decreases, in every interleaving of fire calls.
NextAttemptNeverDecreases ==
    [][ nextAttempt' >= nextAttempt ]_vars

\* a late failure while OPEN moved nextAttempt forward again
NextAttemptWitness ==
    /\ last.op = "rejected" /\ last.from = "OPEN" /\ state = "OPEN"
    /\ now > 0 /\ timeout > 0 /\ nextAttempt = now + timeout /\ trips = 1

\* C28: every step that enters OPEN leaves nextAttempt at the current time
\* plus timeout and successCount at 0; so when a HALF_OPEN window follows a
\* failed probe, the breaker closes only on success number
\* successThreshold + 1 of that window.
TripResetsAndNextWindowNeedsFullStreak ==
    [][ /\ (state # "OPEN" /\ state' = "OPEN")
           => (nextAttempt' = now + timeout /\ successCount' = 0)
        /\ (halfOpens >= 2 /\ state = "HALF_OPEN" /\ state' = "CLOSED")
           => winSucc' = successThreshold + 1 ]_vars

\* C21 (construction): right after the constructor the breaker is CLOSED with
\* failureCount = 0, successCount = 0 and nextAttempt = the time of
\* construction; each of failureThreshold, successThreshold and timeout is
\* its default (3, 2, 5000) when the option is omitted and the supplied value
\* (0 included) when it is given.
ConstructedAsDocumented ==
    last.op = "constructor" =>
        /\ state = "CLOSED"
        /\ failureCount = 0
        /\ successCount = 0
        /\ nextAttempt = now
        /\ failureThreshold = IF options.failureThreshold.given
                              THEN options.failureThreshold.value
                              ELSE DefaultFailureThreshold
        /\ successThreshold = IF options.successThreshold.given
                              THEN options.successThreshold.value
                              ELSE DefaultSuccessThreshold
        /\ timeout = IF options.timeout.given
                     THEN options.timeout.value
                     ELSE DefaultTimeout

ConstructedWitness ==
    /\ last.op = "constructor"
    /\ options.failureThreshold = Omitted /\ failureThreshold = 3
    /\ options.successThreshold = Given(0) /\ successThreshold = 0
    /\ options.timeout = Given(1) /\ timeout = 1
    /\ now > 0 /\ nextAttempt = now /\ state = "CLOSED"

\* C29 (draft breaker): in CircuitBreakerPattern a step taken while OPEN
\* leaves the state OPEN, whatever the time; an act call made while OPEN is
\* rejected with the circuit-open message and invokes no action; and a
\* failing action is not re-raised: act delivers no error for it.
DraftOpenIsAbsorbing ==
    [][ /\ state = "OPEN"
           => /\ state' = "OPEN"
              /\ last'.op = "act"
                 => /\ last'.ret = Throw(CircuitOpenMessage)
                    /\ invocations' = invocations
                    /\ pc' = pc
        /\ last'.op = "rejected" => last'.ret.kind # "throw" ]_vars

DraftOpenWitness ==
    /\ last.op = "act" /\ last.from = "OPEN" /\ state = "OPEN"
    /\ last.ret = Throw(CircuitOpenMessage)
    /\ now > nextAttempt /\ nFail >= failureThreshold
    /\ invocations = nFail + nSucc


\* the chain auth -> validate -> order
OrderingChain ==
    nexthandler = [h \in Handlers |->
                      CASE h = "Auth" -> "Validate"
                        [] h = "Validate" -> "Order"
                        [] h = "Order" -> Null]

\* C25 (first failure wins): on the chain Auth -> Validate -> Order, a handle
\* call on Auth returns the failure message of the first of isAuthenticated,
\* isValid, orderDataValid that is false, and the handlers invoked are
\* exactly those up to and including that handler: none after it.
FirstFailureWins ==
    (OrderingChain /\ trace # << >> /\ trace[1] = "Auth")
        => /\ result.kind # "throw"
           /\ result.kind = "return" =>
                IF ~request.isAuthenticated
                THEN /\ result.val = "Authentication failed. Access denied."
                     /\ trace = <<"Auth">>
                ELSE IF ~request.isValid
                THEN /\ result.val = "Validation failed. Invalid data provided."
                     /\ trace = <<"Auth", "Validate">>
                ELSE /\ trace = <<"Auth", "Validate", "Order">>
                     /\ result.val = IF ~request.orderDataValid
                                     THEN "Order processing failed. Invalid order data."
                                     ELSE Null

FirstFailureWitness ==
    /\ OrderingChain
    /\ request.isAuthenticated /\ ~request.isValid /\ ~request.orderDataValid
    /\ trace = <<"Auth", "Validate">>
    /\ result = Return("Validation failed. Invalid data provided.")

\* the statement auth.setNext(validate).setNext(order)
BuiltAsChainedCalls ==
    built = << [chained |-> FALSE, recv |-> "Auth", arg |-> "Validate"],
               [chained |-> TRUE, recv |-> Null, arg |-> "Order"] >>

\* C26 (chained construction): every setNext call returns the handler it was
\* given; after auth.setNext(validate).setNext(order) the links are
\* auth -> validate -> order, and a request with all three flags true handled
\* from Auth is handled by Auth, Validate, Order, once each in that order, and
\* handle returns null.
ChainedSetNextLinks ==
    /\ built # << >> => setNextRet = built[Len(built)].arg
    /\ BuiltAsChainedCalls
        => /\ OrderingChain
           /\ (/\ trace # << >> /\ trace[1] = "Auth"
               /\ request.isAuthenticated /\ request.isValid
               /\ request.orderDataValid)
              => /\ \E n \in 1..3 : trace = SubSeq(<<"Auth", "Validate", "Order">>, 1, n)
                 /\ result.kind # "throw"
                 /\ result.kind = "return"
                    => /\ trace = <<"Auth", "Validate", "Order">>
                       /\ result.val = Null

ChainedSetNextWitness ==
    /\ BuiltAsChainedCalls
    /\ request.isAuthenticated /\ request.isValid /\ request.orderDataValid
    /\ trace = <<"Auth", "Validate", "Order">>
    /\ result = Return(Null)

\* the handlers on the path of next links from h, n links long at most
RECURSIVE Path(_, _)
Path(h, n) ==
    IF h = Null \/ n = 0 THEN {}
    ELSE {h} \cup Path(nexthandler[h], n - 1)

Acyclic ==
    \A h \in Handlers : h \notin Path(nexthandler[h], Cardinality(Handlers))

NoRepeat(t) == \A i, j \in 1..Len(t) : i # j => t[i] # t[j]

\* a request that passes both checks is at one of two handlers linked to
\* each other
InTwoCycle ==
    /\ result = Pending
    /\ \E a, b \in Handlers :
          /\ a # b /\ cur = a
          /\ nexthandler[a] = b /\ nexthandler[b] = a
          /\ Passes(a, request) /\ Passes(b, request)

OpenHasNoSuccessCount == state = "OPEN" => successCount = 0

\* C32 (only probes close): a step from HALF_OPEN to CLOSED is taken only
\* when more than successThreshold calls admitted in the current HALF_OPEN
\* window have succeeded; successes of calls admitted before do not count.
OnlyProbeResultsClose ==
    [][ (state = "HALF_OPEN" /\ state' = "CLOSED")
            => probeSucc' > successThreshold ]_vars

\* C33 (fixed deadline): a step that starts and ends in OPEN leaves
\* nextAttempt unchanged, also the late failure of a call admitted before
\* the trip.
OpenDeadlineFixed ==
    [][ (state = "OPEN" /\ state' = "OPEN") => nextAttempt' = nextAttempt ]_vars


\* C34 (recovery): with sequential calls, when from some point on every
\* action call succeeds, fire keeps being called and time keeps advancing,
\* the breaker is eventually CLOSED and stays CLOSED.
RecoveryLiveness == <>[](state = "CLOSED")

RecoveryLivenessWitness ==
    /\ state = "CLOSED" /\ last.op = "resolved" /\ last.from = "HALF_OPEN"
    /\ nFail = MaxFail /\ trips >= 1 /\ closes >= 1
    /\ timeout > 0 /\ now > nextAttempt


\* the chain debugLog -> errLog -> infoLog
LoggerChain ==
    nexthandler = [l \in Loggers |->
                      CASE l = "DebugLogger" -> "ErrorLogger"
                        [] l = "ErrorLogger" -> "InfoLogger"
                        [] l = "InfoLogger" -> Undefined]

====
